---- MODULE Spec2Model ----
(***************************************************************************)
(* Construction and forward evaluation of the 1-D UNet blocks of           *)
(* src/diffusers/models/unet_1d_blocks.py.                                 *)
(*                                                                         *)
(* A tensor is abstracted to its channel count, its sequence length and a  *)
(* tag that tells the caller's tensors apart (tag 0 = computed by a        *)
(* sub-block).  A sub-block is abstracted to the channel counts it was     *)
(* constructed with.  Python exceptions are the values of "err".           *)
(***************************************************************************)
EXTENDS Integers, Sequences, FiniteSets, TLC

(* ------------------------------ bounds --------------------------------- *)
\* largest num_layers a block is constructed with
MaxLayers == 2
\* longest skip-state tuple a caller hands to an Up block
MaxSkips == 3
\* most forward calls made on one instance
MaxCalls == 2
\* most Down/Up stages of one encoder-decoder pipeline
MaxStages == 2

Layers == 0..MaxLayers
ChanSet == {4, 8}
SeqLens == {8, 16}

(* ------------------------------ tensors -------------------------------- *)
Tensor(c, n, t) == [ch |-> c, len |-> n, tag |-> t]
NoTensor == Tensor(0, 0, 0)

\* torch.cat(..., dim=1): channels add up, lengths must agree
Cat(a, b) == Tensor(a.ch + b.ch, a.len, 0)

(* --------------------- sub-block slots of an instance ------------------ *)
\* the value bound to an attribute such as self.downsample / self.upsamplers:
\* None, a sub-module, or (MidResTemporalBlock1D.forward) a tensor
NoneSlot == [kind |-> "None", op |-> "-", ch |-> 0, len |-> 0]
ModuleSlot(o, c) == [kind |-> "Module", op |-> o, ch |-> c, len |-> 0]
TensorSlot(t) == [kind |-> "Tensor", op |-> "-", ch |-> t.ch, len |-> t.len]

\* a resnet sub-block: constructed input and output channel counts
Res(i, o) == [cin |-> i, cout |-> o]
\* an attention slot: a SelfAttention1d or None (UNetMidBlock1D without attention)
Attn(c, h) == [none |-> FALSE, ch |-> c, heads |-> h]
NoAttn == [none |-> TRUE, ch |-> 0, heads |-> 0]

RECURSIVE Repeat(_, _)
Repeat(x, n) == IF n = 0 THEN <<>> ELSE <<x>> \o Repeat(x, n - 1)

(* ------------------------------ instances ------------------------------ *)
\* an optional number: None, or a value
None == [some |-> FALSE, v |-> 0]
Some(x) == [some |-> TRUE, v |-> x]

\* the rebalancing attributes s1, s2, b1, b2 of an instance: None where the
\* instance has no such attribute (getattr(self, name, None))
FreeUNames == {"s1", "s2", "b1", "b2"}
NoFreeU == [a \in FreeUNames |-> None]

NoInst ==
    [cls |-> "-", num_layers |-> 0, in_channels |-> 0, out_channels |-> 0,
     resnets |-> <<>>, attentions |-> <<>>, down |-> NoneSlot, up |-> NoneSlot,
     down2 |-> NoneSlot, kind |-> "-", attrs |-> {}, add_attention |-> FALSE,
     gradient_checkpointing |-> FALSE, freeu |-> NoFreeU, skip_channels |-> 0]

\* the outcome of a constructor or factory call
Built(i) == [err |-> "none", msg |-> "", none |-> FALSE, inst |-> i]
Raised(e, m) == [err |-> e, msg |-> m, none |-> FALSE, inst |-> NoInst]
ReturnedNone == [err |-> "none", msg |-> "", none |-> TRUE, inst |-> NoInst]

(* ------------------------- Python call binding ------------------------- *)
\* the parameter names of each __init__ / forward signature in the file
Params(cls) ==
    CASE cls = "DownResnetBlock1D" ->
           {"in_channels", "out_channels", "num_layers", "conv_shortcut", "temb_channels",
            "groups", "groups_out", "non_linearity", "time_embedding_norm",
            "output_scale_factor", "add_downsample"}
      [] cls = "UpResnetBlock1D" ->
           {"in_channels", "out_channels", "num_layers", "temb_channels", "groups",
            "groups_out", "non_linearity", "time_embedding_norm", "output_scale_factor",
            "add_upsample"}
      [] cls = "ValueFunctionMidBlock1D" -> {"in_channels", "out_channels", "embed_dim"}
      [] cls = "MidResTemporalBlock1D" ->
           {"in_channels", "out_channels", "embed_dim", "num_layers", "add_downsample",
            "add_upsample", "non_linearity"}
      [] cls = "OutConv1DBlock" ->
           {"in_channels", "out_channels", "num_groups_out", "embed_dim", "act_fn"}
      [] cls = "OutValueFunctionBlock" -> {"fc_dim", "embed_dim", "act_fn"}
      [] cls = "SelfAttention1d" -> {"in_channels", "n_head", "dropout_rate"}
      [] cls = "SelfAttention1d.forward" -> {"hidden_states"}
      [] cls = "UNetMidBlock1D" ->
           {"in_channels", "temb_channels", "dropout", "num_layers", "resnet_eps",
            "resnet_time_scale_shift", "resnet_act_fn", "resnet_groups", "attn_groups",
            "resnet_pre_norm", "add_attention", "attention_head_dim", "output_scale_factor"}
      [] cls = "AttnDownBlock1D" ->
           {"in_channels", "out_channels", "temb_channels", "dropout", "num_layers",
            "resnet_eps", "resnet_time_scale_shift", "resnet_act_fn", "resnet_groups",
            "resnet_pre_norm", "attention_head_dim", "output_scale_factor",
            "downsample_padding", "downsample_type"}
      [] cls = "DownBlock1D" ->
           {"in_channels", "out_channels", "temb_channels", "dropout", "num_layers",
            "resnet_eps", "resnet_time_scale_shift", "resnet_act_fn", "resnet_groups",
            "resnet_pre_norm", "output_scale_factor", "add_downsample", "downsample_padding"}
      [] cls = "DownBlock1DNoSkip" -> {"out_channels", "in_channels", "mid_channels"}
      [] cls = "AttnUpBlock1D" ->
           {"in_channels", "skip_channels", "out_channels", "temb_channels",
            "resolution_idx", "dropout", "num_layers", "resnet_eps",
            "resnet_time_scale_shift", "resnet_act_fn", "resnet_groups", "resnet_pre_norm",
            "attention_head_dim", "output_scale_factor", "upsample_type"}
      [] cls = "UpBlock1D" ->
           {"in_channels", "skip_channels", "out_channels", "temb_channels",
            "resolution_idx", "dropout", "num_layers", "resnet_eps",
            "resnet_time_scale_shift", "resnet_act_fn", "resnet_groups", "resnet_pre_norm",
            "output_scale_factor", "add_upsample"}
      [] cls = "UpBlock1DNoSkip" ->
           {"in_channels", "skip_channels", "out_channels", "resolution_idx", "dropout",
            "num_layers", "resnet_eps", "resnet_act_fn", "resnet_groups",
            "output_scale_factor"}
      [] OTHER -> {}

\* the parameters without a default
Required(cls) ==
    CASE cls \in {"DownResnetBlock1D", "UpResnetBlock1D", "SelfAttention1d"} -> {"in_channels"}
      [] cls \in {"ValueFunctionMidBlock1D", "MidResTemporalBlock1D"} ->
           {"in_channels", "out_channels", "embed_dim"}
      [] cls = "OutConv1DBlock" -> Params(cls)
      [] cls = "OutValueFunctionBlock" -> {"fc_dim", "embed_dim"}
      [] cls = "SelfAttention1d.forward" -> {"hidden_states"}
      [] cls = "UNetMidBlock1D" -> {"in_channels", "temb_channels"}
      [] cls \in {"AttnDownBlock1D", "DownBlock1D"} ->
           {"in_channels", "out_channels", "temb_channels"}
      [] cls = "DownBlock1DNoSkip" -> {"out_channels", "in_channels"}
      [] cls \in {"AttnUpBlock1D", "UpBlock1D"} ->
           {"in_channels", "skip_channels", "out_channels", "temb_channels"}
      [] cls = "UpBlock1DNoSkip" -> {"in_channels", "skip_channels", "out_channels"}
      [] OTHER -> {}

\* Python binds a call when every name passed is a parameter and every parameter
\* without a default is passed; otherwise the call raises TypeError
Binds(cls, passed) == passed \subseteq Params(cls) /\ Required(cls) \subseteq passed

\* the same with an OutConv1DBlock.forward that takes the hidden state only
ForwardParams_hidden_only(cls) ==
    CASE cls \in {"DownResnetBlock1D", "ValueFunctionMidBlock1D", "MidResTemporalBlock1D",
                  "OutValueFunctionBlock", "UNetMidBlock1D", "DownBlock1DNoSkip"} -> {"temb"}
      [] cls = "UpResnetBlock1D" -> {"res_hidden_states_tuple", "temb"}
      [] cls = "AttnDownBlock1D" -> {"temb", "upsample_size", "cross_attention_kwargs"}
      [] cls = "DownBlock1D" -> {"temb", "scale"}
      [] cls \in {"AttnUpBlock1D", "UpBlock1D", "UpBlock1DNoSkip"} ->
           {"res_hidden_states_tuple", "temb", "upsample_size", "scale"}
      [] OTHER -> {}

\* the parameters of each forward signature after self and the hidden state
ForwardParams(cls) ==
    CASE cls \in {"DownResnetBlock1D", "ValueFunctionMidBlock1D", "MidResTemporalBlock1D",
                  "OutConv1DBlock", "OutValueFunctionBlock", "UNetMidBlock1D",
                  "DownBlock1DNoSkip"} -> {"temb"}
      [] cls = "UpResnetBlock1D" -> {"res_hidden_states_tuple", "temb"}
      [] cls = "AttnDownBlock1D" -> {"temb", "upsample_size", "cross_attention_kwargs"}
      [] cls = "DownBlock1D" -> {"temb", "scale"}
      [] cls \in {"AttnUpBlock1D", "UpBlock1D", "UpBlock1DNoSkip"} ->
           {"res_hidden_states_tuple", "temb", "upsample_size", "scale"}
      [] OTHER -> {}

(* ----------------------------- constructors ---------------------------- *)
Inst(c, L, i, o, rs, as, d, u, k, at) ==
    [cls |-> c, num_layers |-> L, in_channels |-> i, out_channels |-> o,
     resnets |-> rs, attentions |-> as, down |-> d, up |-> u, down2 |-> NoneSlot,
     kind |-> k, attrs |-> at, add_attention |-> FALSE,
     gradient_checkpointing |-> FALSE, freeu |-> NoFreeU, skip_channels |-> 0]

\* an Up block remembered together with the skip channel count its resnets were
\* sized for (the constructor argument skip_channels; the blocks do not store it)
WithSkip(built, skip_channels) ==
    IF built.err # "none" THEN built
    ELSE [built EXCEPT !.inst.skip_channels = skip_channels]

\* class DownResnetBlock1D: one leading resnet, num_layers more, optional down-sampler
DownResnetBlock1D_init(in_channels, out_channels, num_layers, add_downsample) ==
    Built(Inst("DownResnetBlock1D", num_layers, in_channels, out_channels,
               <<Res(in_channels, out_channels)>> \o Repeat(Res(out_channels, out_channels), num_layers),
               <<>>,
               IF add_downsample THEN ModuleSlot("Downsample1D", out_channels) ELSE NoneSlot,
               NoneSlot, "-",
               {"in_channels", "out_channels", "use_conv_shortcut", "time_embedding_norm",
                "add_downsample", "output_scale_factor", "resnets", "nonlinearity",
                "downsample"}))

\* class UpResnetBlock1D: the leading resnet takes 2 * in_channels, that is a
\* skip tensor of in_channels channels (the class has no skip_channels argument)
UpResnetBlock1D_init(in_channels, out_channels, num_layers, add_upsample) ==
    WithSkip(
    Built(Inst("UpResnetBlock1D", num_layers, in_channels, out_channels,
               <<Res(2 * in_channels, out_channels)>> \o Repeat(Res(out_channels, out_channels), num_layers),
               <<>>, NoneSlot,
               IF add_upsample THEN ModuleSlot("Upsample1D", out_channels) ELSE NoneSlot,
               "-",
               {"in_channels", "out_channels", "time_embedding_norm", "add_upsample",
                "output_scale_factor", "resnets", "nonlinearity", "upsample"})),
    in_channels)

\* bool(x) of a slot's value in an if: None is false, a module is true
Truthy(slot) == slot.kind # "None"

\* the mutual-exclusion test of the two resample flags, with "or" for "and"
MidResTemporalBlock1D_conflict_or(upsample, downsample) ==
    Truthy(upsample) \/ Truthy(downsample)

\* "if self.upsample and self.downsample"
MidResTemporalBlock1D_conflict(upsample, downsample) ==
    Truthy(upsample) /\ Truthy(downsample)

\* class MidResTemporalBlock1D: self.upsample is built as a Downsample1D
MidResTemporalBlock1D_init(in_channels, out_channels, num_layers, add_downsample, add_upsample) ==
    LET upsample == IF add_upsample THEN ModuleSlot("Downsample1D", out_channels) ELSE NoneSlot
        downsample == IF add_downsample THEN ModuleSlot("Downsample1D", out_channels) ELSE NoneSlot
    IN  IF MidResTemporalBlock1D_conflict(upsample, downsample)
        THEN Raised("ValueError", "Block cannot downsample and upsample")
        ELSE Built(Inst("MidResTemporalBlock1D", num_layers, in_channels, out_channels,
                        <<Res(in_channels, out_channels)>> \o Repeat(Res(out_channels, out_channels), num_layers),
                        <<>>, downsample, upsample, "-",
                        {"in_channels", "out_channels", "add_downsample", "resnets",
                         "nonlinearity", "upsample", "downsample"}))

\* class ValueFunctionMidBlock1D: res1, down1, res2, down2
ValueFunctionMidBlock1D_init(in_channels, out_channels) ==
    Built([Inst("ValueFunctionMidBlock1D", 0, in_channels, out_channels,
                <<Res(in_channels, in_channels \div 2), Res(in_channels \div 2, in_channels \div 4)>>,
                <<>>, ModuleSlot("Downsample1D", out_channels \div 2), NoneSlot, "-",
                {"in_channels", "out_channels", "embed_dim", "res1", "down1", "res2", "down2"})
           EXCEPT !.down2 = ModuleSlot("Downsample1D", out_channels \div 4)])

\* class OutConv1DBlock: conv in -> in, group norm, activation, conv in -> out
OutConv1DBlock_init(in_channels, out_channels) ==
    Built(Inst("OutConv1DBlock", 0, in_channels, out_channels,
               <<Res(in_channels, in_channels), Res(in_channels, out_channels)>>,
               <<>>, NoneSlot, NoneSlot, "-",
               {"final_conv1d_1", "final_conv1d_gn", "final_conv1d_act", "final_conv1d_2"}))

\* class OutValueFunctionBlock: Linear(fc_dim + embed_dim, fc_dim // 2), act, Linear(fc_dim // 2, 1)
OutValueFunctionBlock_init(fc_dim, embed_dim) ==
    Built(Inst("OutValueFunctionBlock", 0, fc_dim + embed_dim, 1,
               <<Res(fc_dim + embed_dim, fc_dim \div 2), Res(fc_dim \div 2, 1)>>,
               <<>>, NoneSlot, NoneSlot, "-", {"final_block"}))

\* class SelfAttention1d: __init__ stores the channel and head counts
SelfAttention1d_init(in_channels, n_head) == Attn(in_channels, n_head)

\* the arguments of the SelfAttention1d(...) call in AttnDownBlock1D.__init__
AttnDownBlock1D_attn_kwargs ==
    {"in_channels", "heads", "dim_head", "rescale_output_factor", "eps", "norm_num_groups",
     "residual_connection", "bias", "upcast_softmax", "_from_deprecated_attn_block"}

\* the arguments of the SelfAttention1d(...) call in AttnUpBlock1D.__init__
AttnUpBlock1D_attn_kwargs == {"in_channels", "n_head"}

\* the arguments of the SelfAttention1d(...) call in UNetMidBlock1D.__init__
UNetMidBlock1D_attn_kwargs == {"in_channels", "n_head", "dropout_rate"}

\* "if attention_head_dim is None: attention_head_dim = <default>"
HeadDim(attention_head_dim, default) ==
    IF attention_head_dim.some THEN attention_head_dim.v ELSE default

\* the error, if any, of building one attention sub-block: the head count
\* channels // head_dim is computed first, then the call is bound
AttnError(head_dim, kwargs) ==
    IF head_dim = 0 THEN "ZeroDivisionError"
    ELSE IF ~Binds("SelfAttention1d", kwargs) THEN "TypeError"
    ELSE "none"

\* a down-/up-sampler list chosen by downsample_type / upsample_type
Resampler(type, convOp, resnetOp, channels) ==
    IF type = "conv" THEN ModuleSlot(convOp, channels)
    ELSE IF type = "resnet" THEN ModuleSlot(resnetOp, channels)
    ELSE NoneSlot

\* class UNetMidBlock1D: num_layers + 1 resnets, num_layers attention slots
UNetMidBlock1D_init(in_channels, num_layers, add_attention, attention_head_dim) ==
    LET hd == HeadDim(attention_head_dim, in_channels)
        e == IF num_layers >= 1 /\ add_attention THEN AttnError(hd, UNetMidBlock1D_attn_kwargs) ELSE "none"
    IN  IF e # "none" THEN Raised(e, "SelfAttention1d")
        ELSE Built([Inst("UNetMidBlock1D", num_layers, in_channels, in_channels,
                         Repeat(Res(in_channels, in_channels), num_layers + 1),
                         IF add_attention
                         THEN Repeat(SelfAttention1d_init(in_channels, in_channels \div hd), num_layers)
                         ELSE Repeat(NoAttn, num_layers),
                         NoneSlot, NoneSlot, "-", {"add_attention", "attentions", "resnets"})
                    EXCEPT !.add_attention = add_attention])

\* class AttnDownBlock1D: num_layers (resnet, attention) pairs, optional down-sampler
AttnDownBlock1D_init(in_channels, out_channels, num_layers, attention_head_dim, downsample_type) ==
    LET hd == HeadDim(attention_head_dim, out_channels)
        e == IF num_layers >= 1 THEN AttnError(hd, AttnDownBlock1D_attn_kwargs) ELSE "none"
    IN  IF e # "none" THEN Raised(e, "SelfAttention1d")
        ELSE Built(Inst("AttnDownBlock1D", num_layers, in_channels, out_channels,
                        [i \in 1..num_layers |-> Res(IF i = 1 THEN in_channels ELSE out_channels, out_channels)],
                        Repeat(SelfAttention1d_init(out_channels, out_channels \div hd), num_layers),
                        Resampler(downsample_type, "Downsample1D", "ResnetBlock1D.down", out_channels),
                        NoneSlot, downsample_type,
                        {"downsample_type", "attentions", "resnets", "downsamplers"}))

\* DownBlock1D.__init__ with a leading resnet before the num_layers of its loop
DownBlock1D_init_leading(in_channels, out_channels, num_layers, add_downsample) ==
    Built(Inst("DownBlock1D", num_layers, in_channels, out_channels,
               <<Res(in_channels, out_channels)>> \o Repeat(Res(out_channels, out_channels), num_layers),
               <<>>,
               IF add_downsample THEN ModuleSlot("Downsample1D", out_channels) ELSE NoneSlot,
               NoneSlot, "-", {"resnets", "downsamplers", "gradient_checkpointing"}))

\* class DownBlock1D: num_layers resnets, optional down-sampler
DownBlock1D_init(in_channels, out_channels, num_layers, add_downsample) ==
    Built(Inst("DownBlock1D", num_layers, in_channels, out_channels,
               [i \in 1..num_layers |-> Res(IF i = 1 THEN in_channels ELSE out_channels, out_channels)],
               <<>>,
               IF add_downsample THEN ModuleSlot("Downsample1D", out_channels) ELSE NoneSlot,
               NoneSlot, "-", {"resnets", "downsamplers", "gradient_checkpointing"}))

\* class DownBlock1DNoSkip: three ResConvBlocks, mid_channels defaulting to out_channels
DownBlock1DNoSkip_init(out_channels, in_channels) ==
    Built(Inst("DownBlock1DNoSkip", 0, in_channels, out_channels,
               <<Res(in_channels, out_channels), Res(out_channels, out_channels),
                 Res(out_channels, out_channels)>>,
               <<>>, NoneSlot, NoneSlot, "-", {"resnets"}))

\* class AttnUpBlock1D: num_layers (resnet, attention) pairs, optional up-sampler
AttnUpBlock1D_init(in_channels, skip_channels, out_channels, num_layers, attention_head_dim, upsample_type) ==
    LET hd == HeadDim(attention_head_dim, out_channels)
        e == IF num_layers >= 1 THEN AttnError(hd, AttnUpBlock1D_attn_kwargs) ELSE "none"
    IN  IF e # "none" THEN Raised(e, "SelfAttention1d")
        ELSE WithSkip(
             Built(Inst("AttnUpBlock1D", num_layers, in_channels, out_channels,
                        [i \in 1..num_layers |->
                            Res((IF i = 1 THEN in_channels ELSE out_channels)
                                + (IF i = num_layers THEN skip_channels ELSE out_channels),
                                out_channels)],
                        Repeat(SelfAttention1d_init(out_channels, out_channels \div hd), num_layers),
                        NoneSlot,
                        Resampler(upsample_type, "Upsample1D", "ResnetBlock1D.up", out_channels),
                        upsample_type,
                        {"upsample_type", "attentions", "resnets", "upsamplers", "resolution_idx"})),
             skip_channels)

\* class UpBlock1D: num_layers resnets, each taking skip_channels more, optional up-sampler
UpBlock1D_init(in_channels, skip_channels, out_channels, num_layers, add_upsample) ==
    WithSkip(
    Built(Inst("UpBlock1D", num_layers, in_channels, out_channels,
               [i \in 1..num_layers |->
                   Res((IF i = 1 THEN in_channels ELSE out_channels) + skip_channels, out_channels)],
               <<>>, NoneSlot,
               IF add_upsample THEN ModuleSlot("Upsample1D", out_channels) ELSE NoneSlot,
               "-", {"resnets", "upsamplers", "gradient_checkpointing", "resolution_idx"})),
    skip_channels)

\* class UpBlock1DNoSkip: num_layers resnets; __init__ sets no self.upsamplers
UpBlock1DNoSkip_init(in_channels, skip_channels, out_channels, num_layers) ==
    WithSkip(
    Built(Inst("UpBlock1DNoSkip", num_layers, in_channels, out_channels,
               [i \in 1..num_layers |->
                   Res((IF i = 1 THEN in_channels ELSE out_channels)
                       + (IF i = num_layers THEN skip_channels ELSE out_channels),
                       out_channels)],
               <<>>, NoneSlot, NoneSlot, "-",
               {"resnets", "gradient_checkpointing", "resolution_idx"})),
    skip_channels)

(* ------------------------------ factories ------------------------------ *)
\* a constructor call with keyword arguments: bound first, then run
Call(cls, kwargs, built) == IF Binds(cls, kwargs) THEN built ELSE Raised("TypeError", cls)

\* the keyword arguments each branch of get_down_block passes
get_down_block_kwargs(down_block_type) ==
    CASE down_block_type = "DownResnetBlock1D" ->
           {"in_channels", "num_layers", "out_channels", "temb_channels", "add_downsample"}
      [] down_block_type = "DownBlock1D" ->
           {"num_layers", "in_channels", "out_channels", "temb_channels", "dropout",
            "add_downsample", "resnet_eps", "resnet_act_fn", "resnet_groups",
            "downsample_padding", "resnet_time_scale_shift"}
      [] down_block_type = "AttnDownBlock1D" ->
           {"num_layers", "in_channels", "out_channels", "temb_channels", "dropout",
            "resnet_eps", "resnet_act_fn", "resnet_groups", "downsample_padding",
            "attention_head_dim", "resnet_time_scale_shift", "downsample_type"}
      [] down_block_type = "DownBlock1DNoSkip" -> {"out_channels", "in_channels"}
      [] OTHER -> {}

\* the resample kind passed on as given, whether or not resampling is asked for
ResampleKind_given(add, type) == type

\* "downsample_type or 'conv'" when resampling is asked for, None when it is not
ResampleKind(add, type) == IF ~add THEN "None" ELSE IF type \in {"None", ""} THEN "conv" ELSE type

\* get_down_block with a default block in place of the final raise
get_down_block_fallthrough(down_block_type, num_layers, in_channels, out_channels, add_downsample, attention_head_dim, downsample_type) ==
    IF down_block_type = "DownResnetBlock1D"
    THEN Call("DownResnetBlock1D", get_down_block_kwargs(down_block_type),
              DownResnetBlock1D_init(in_channels, out_channels, num_layers, add_downsample))
    ELSE IF down_block_type = "AttnDownBlock1D"
    THEN Call("AttnDownBlock1D", get_down_block_kwargs(down_block_type),
              AttnDownBlock1D_init(in_channels, out_channels, num_layers, attention_head_dim,
                                   ResampleKind(add_downsample, downsample_type)))
    ELSE IF down_block_type = "DownBlock1DNoSkip"
    THEN Call("DownBlock1DNoSkip", get_down_block_kwargs(down_block_type),
              DownBlock1DNoSkip_init(out_channels, in_channels))
    ELSE Call("DownBlock1D", get_down_block_kwargs("DownBlock1D"),
              DownBlock1D_init(in_channels, out_channels, num_layers, add_downsample))

get_down_block(down_block_type, num_layers, in_channels, out_channels, add_downsample, attention_head_dim, downsample_type) ==
    IF down_block_type = "DownResnetBlock1D"
    THEN Call("DownResnetBlock1D", get_down_block_kwargs(down_block_type),
              DownResnetBlock1D_init(in_channels, out_channels, num_layers, add_downsample))
    ELSE IF down_block_type = "DownBlock1D"
    THEN Call("DownBlock1D", get_down_block_kwargs(down_block_type),
              DownBlock1D_init(in_channels, out_channels, num_layers, add_downsample))
    ELSE IF down_block_type = "AttnDownBlock1D"
    THEN Call("AttnDownBlock1D", get_down_block_kwargs(down_block_type),
              AttnDownBlock1D_init(in_channels, out_channels, num_layers, attention_head_dim,
                                   ResampleKind(add_downsample, downsample_type)))
    ELSE IF down_block_type = "DownBlock1DNoSkip"
    THEN Call("DownBlock1DNoSkip", get_down_block_kwargs(down_block_type),
              DownBlock1DNoSkip_init(out_channels, in_channels))
    ELSE Raised("ValueError", down_block_type)

\* the keyword arguments each branch of get_up_block passes
get_up_block_kwargs(up_block_type) ==
    CASE up_block_type = "UpResnetBlock1D" ->
           {"in_channels", "num_layers", "out_channels", "temb_channels", "add_upsample"}
      [] up_block_type = "UpBlock1D" ->
           {"num_layers", "in_channels", "skip_channels", "out_channels", "temb_channels",
            "resolution_idx", "dropout", "add_upsample", "resnet_eps", "resnet_act_fn",
            "resnet_groups", "resnet_time_scale_shift"}
      [] up_block_type = "AttnUpBlock1D" ->
           {"num_layers", "in_channels", "skip_channels", "out_channels", "temb_channels",
            "resolution_idx", "dropout", "resnet_eps", "resnet_act_fn", "resnet_groups",
            "attention_head_dim", "resnet_time_scale_shift", "upsample_type"}
      [] up_block_type = "UpBlock1DNoSkip" ->
           {"num_layers", "in_channels", "skip_channels", "out_channels", "resolution_idx",
            "dropout", "add_upsample", "resnet_eps", "resnet_act_fn", "resnet_groups"}
      [] OTHER -> {}

\* attention_head_dim defaults to num_attention_heads when it is None
get_up_block(up_block_type, num_layers, in_channels, out_channels, skip_channels, add_upsample, num_attention_heads, attention_head_dim, upsample_type) ==
    LET ahd == IF attention_head_dim.some THEN attention_head_dim ELSE num_attention_heads
    IN  IF up_block_type = "UpResnetBlock1D"
        THEN Call("UpResnetBlock1D", get_up_block_kwargs(up_block_type),
                  UpResnetBlock1D_init(in_channels, out_channels, num_layers, add_upsample))
        ELSE IF up_block_type = "UpBlock1D"
        THEN Call("UpBlock1D", get_up_block_kwargs(up_block_type),
                  UpBlock1D_init(in_channels, skip_channels, out_channels, num_layers, add_upsample))
        ELSE IF up_block_type = "AttnUpBlock1D"
        THEN Call("AttnUpBlock1D", get_up_block_kwargs(up_block_type),
                  AttnUpBlock1D_init(in_channels, skip_channels, out_channels, num_layers, ahd,
                                     ResampleKind(add_upsample, upsample_type)))
        ELSE IF up_block_type = "UpBlock1DNoSkip"
        THEN Call("UpBlock1DNoSkip", get_up_block_kwargs(up_block_type),
                  UpBlock1DNoSkip_init(in_channels, skip_channels, out_channels, num_layers))
        ELSE Raised("ValueError", up_block_type)

\* the keyword arguments each branch of get_mid_block passes
get_mid_block_kwargs(mid_block_type) ==
    CASE mid_block_type = "MidResTemporalBlock1D" ->
           {"num_layers", "in_channels", "out_channels", "embed_dim", "add_downsample"}
      [] mid_block_type = "ValueFunctionMidBlock1D" ->
           {"in_channels", "out_channels", "embed_dim"}
      [] mid_block_type = "UNetMidBlock1D" ->
           {"in_channels", "temb_channels", "dropout", "resnet_eps", "resnet_act_fn",
            "output_scale_factor", "resnet_time_scale_shift", "attention_head_dim",
            "resnet_groups", "attn_groups", "add_attention"}
      [] OTHER -> {}

\* UNetMidBlock1D is built with its default num_layers = 1, add_upsample is never passed
get_mid_block(mid_block_type, num_layers, in_channels, out_channels, add_downsample, attention_head_dim, add_attention) ==
    IF mid_block_type = "MidResTemporalBlock1D"
    THEN Call("MidResTemporalBlock1D", get_mid_block_kwargs(mid_block_type),
              MidResTemporalBlock1D_init(in_channels, out_channels, num_layers, add_downsample, FALSE))
    ELSE IF mid_block_type = "ValueFunctionMidBlock1D"
    THEN Call("ValueFunctionMidBlock1D", get_mid_block_kwargs(mid_block_type),
              ValueFunctionMidBlock1D_init(in_channels, out_channels))
    ELSE IF mid_block_type = "UNetMidBlock1D"
    THEN Call("UNetMidBlock1D", get_mid_block_kwargs(mid_block_type),
              UNetMidBlock1D_init(in_channels, 1, add_attention, attention_head_dim))
    ELSE Raised("ValueError", mid_block_type)

\* the arguments each branch of get_out_block passes
get_out_block_kwargs(out_block_type) ==
    CASE out_block_type = "OutConv1DBlock" ->
           {"in_channels", "out_channels", "num_groups_out", "embed_dim", "act_fn"}
      [] out_block_type = "ValueFunction" -> {"fc_dim", "embed_dim", "act_fn"}
      [] OTHER -> {}

\* every other out_block_type, None included, returns None
get_out_block(out_block_type, in_channels, out_channels, embed_dim, fc_dim) ==
    IF out_block_type = "OutConv1DBlock"
    THEN Call("OutConv1DBlock", get_out_block_kwargs(out_block_type),
              OutConv1DBlock_init(in_channels, out_channels))
    ELSE IF out_block_type = "ValueFunction"
    THEN Call("OutValueFunctionBlock", get_out_block_kwargs(out_block_type),
              OutValueFunctionBlock_init(fc_dim, embed_dim))
    ELSE ReturnedNone

(* ------------------------- forward evaluation -------------------------- *)
\* a cross_attention_kwargs argument: None, or a mapping object with these keys
NoMapping == [given |-> FALSE, keys |-> {}]
Mapping(keys) == [given |-> TRUE, keys |-> keys]

\* the running state of one forward call: the hidden state, what is left of the
\* skip tuple under the local name, the output_states built so far, the tags of
\* the skip tensors concatenated so far, the sub-blocks applied so far, the scale
\* each resnet of a scale-taking block was run with, the exception raised, and
\* the two objects the caller handed in: the skip tuple object (arg_res) and the
\* mapping the local name cross_attention_kwargs is bound to (given: it is the
\* caller's object, not a fresh one)
Start(hidden_states, res_hidden_states_tuple) ==
    [h |-> hidden_states, res |-> res_hidden_states_tuple, states |-> <<>>,
     cats |-> <<>>, trace |-> <<>>, scales |-> <<>>, err |-> "none",
     arg_res |-> res_hidden_states_tuple, mapping |-> NoMapping]

Fail(st, e) == [st EXCEPT !.err = e]

\* resnet(hidden_states, temb): the channel count must be the one it was built for
StepResnet(st, r) ==
    IF st.err # "none" THEN st
    ELSE IF st.h.ch # r.cin THEN Fail(st, "RuntimeError")
    ELSE [st EXCEPT !.h = Tensor(r.cout, st.h.len, 0), !.trace = Append(@, "resnet")]

\* transpose_for_scores: view(..., num_heads, -1) needs a head count that is
\* positive and divides the channel count
HeadsSplit(a) == a.heads > 0 /\ a.ch % a.heads = 0

\* the default of a forward's scale parameter; a resnet called without a scale
\* runs with the same default
DefaultScale == 1

\* "if self.training and self.gradient_checkpointing: checkpoint(resnet,
\*  hidden_states, temb) else: resnet(hidden_states, temb, scale=scale)":
\* the checkpointed call passes no scale
StepResnetCall(st, r, scale, checkpoint) ==
    LET s1 == StepResnet(st, r)
    IN  IF st.err # "none" \/ s1.err # "none" THEN s1
        ELSE [s1 EXCEPT !.scales = Append(@, IF checkpoint THEN DefaultScale ELSE scale)]

\* attn(hidden_states, **kwargs): the call is bound, the group norm needs the
\* channel count it was built for, the projections are split into heads, and
\* the shape is kept
StepAttn(st, a, kwargs) ==
    IF st.err # "none" \/ a.none THEN st
    ELSE IF ~Binds("SelfAttention1d.forward", kwargs) THEN Fail(st, "TypeError")
    ELSE IF st.h.ch # a.ch THEN Fail(st, "RuntimeError")
    ELSE IF ~HeadsSplit(a) THEN Fail(st, "RuntimeError")
    ELSE [st EXCEPT !.trace = Append(@, "attn")]

\* a down-sampler halves the sequence length, an up-sampler doubles it
Resampled(slot, x) ==
    IF slot.op \in {"Downsample1D", "ResnetBlock1D.down"}
    THEN Tensor(x.ch, x.len \div 2, 0)
    ELSE Tensor(x.ch, x.len * 2, 0)

\* "if self.<resampler> is not None: hidden_states = resampler(hidden_states)"
StepResample(st, slot) ==
    IF st.err # "none" \/ slot.kind = "None" THEN st
    ELSE IF st.h.ch # slot.ch THEN Fail(st, "RuntimeError")
    ELSE [st EXCEPT !.h = Resampled(slot, st.h), !.trace = Append(@, slot.op)]

\* "output_states += (hidden_states,)"
StepEmit(st) ==
    IF st.err # "none" THEN st ELSE [st EXCEPT !.states = Append(@, st.h)]

\* torch.cat([hidden_states, res_hidden_states], dim=1)
StepCat(st, t) ==
    IF st.h.len # t.len THEN Fail(st, "RuntimeError")
    ELSE [st EXCEPT !.h = Cat(st.h, t), !.cats = Append(@, t.tag)]

\* the pop without the slice: the last tensor is read and left in the tuple
StepPop_keep(st) ==
    IF st.err # "none" THEN st
    ELSE IF st.res = <<>> THEN Fail(st, "IndexError")
    ELSE StepCat(st, st.res[Len(st.res)])

\* the pop with the first tensor taken instead of the last
StepPop_head(st) ==
    IF st.err # "none" THEN st
    ELSE IF st.res = <<>> THEN Fail(st, "IndexError")
    ELSE StepCat([st EXCEPT !.res = Tail(@)], Head(st.res))

\* the pop done in place on the caller's object, as "res_hidden_states_tuple.pop()"
\* on a list would
StepPop_inplace(st) ==
    IF st.err # "none" THEN st
    ELSE IF st.res = <<>> THEN Fail(st, "IndexError")
    ELSE StepCat([st EXCEPT !.res = SubSeq(@, 1, Len(@) - 1),
                            !.arg_res = SubSeq(st.res, 1, Len(st.res) - 1)],
                 st.res[Len(st.res)])

\* "res_hidden_states = res_hidden_states_tuple[-1];
\*  res_hidden_states_tuple = res_hidden_states_tuple[:-1]; torch.cat(...)":
\* the slice is a new tuple bound to the local name, the caller's is left alone
StepPop(st) ==
    IF st.err # "none" THEN st
    ELSE IF st.res = <<>> THEN Fail(st, "IndexError")
    ELSE StepCat([st EXCEPT !.res = SubSeq(@, 1, Len(@) - 1)], st.res[Len(st.res)])

\* "for resnet in self.resnets: hidden_states = resnet(hidden_states, temb)"
RECURSIVE ApplyResnets(_, _)
ApplyResnets(st, rs) ==
    IF rs = <<>> THEN st ELSE ApplyResnets(StepResnet(st, Head(rs)), Tail(rs))

\* the result of a forward call: the running state and the instance afterwards
Done(st, self) == [st |-> st, self |-> self]

\* DownResnetBlock1D.forward: all resnets, one skip state, then the down-sampler
DownResnetBlock1D_forward(self, hidden_states) ==
    Done(StepResample(StepEmit(ApplyResnets(Start(hidden_states, <<>>), self.resnets)),
                      self.down),
         self)

\* the loop of DownBlock1D.forward: a skip state after every resnet
RECURSIVE DownBlock1D_loop(_, _, _, _)
DownBlock1D_loop(st, rs, scale, checkpoint) ==
    IF rs = <<>> THEN st
    ELSE DownBlock1D_loop(StepEmit(StepResnetCall(st, Head(rs), scale, checkpoint)), Tail(rs),
                          scale, checkpoint)

\* DownBlock1D.forward with the down-sampled state appended to output_states
DownBlock1D_forward_emit(self, hidden_states, scale, training) ==
    LET st == StepResample(DownBlock1D_loop(Start(hidden_states, <<>>), self.resnets, scale,
                                            training /\ self.gradient_checkpointing),
                           self.down)
    IN  Done(IF self.down.kind = "None" THEN st ELSE StepEmit(st), self)

\* DownBlock1D.forward: the down-sampled state is returned but not appended
DownBlock1D_forward(self, hidden_states, scale, training) ==
    Done(StepResample(DownBlock1D_loop(Start(hidden_states, <<>>), self.resnets, scale,
                                       training /\ self.gradient_checkpointing),
                      self.down),
         self)

\* "cross_attention_kwargs.update({'scale': lora_scale})": the key is written
\* into the object the local name is bound to
StepUpdateScale(st) ==
    IF st.err # "none" THEN st ELSE [st EXCEPT !.mapping.keys = @ \cup {"scale"}]

\* the loop of AttnDownBlock1D.forward: the update, resnet, attention called
\* with **cross_attention_kwargs, a skip state
RECURSIVE AttnDownBlock1D_loop(_, _, _)
AttnDownBlock1D_loop(st, rs, as) ==
    IF rs = <<>> \/ as = <<>> THEN st
    ELSE LET s1 == StepResnet(StepUpdateScale(st), Head(rs))
         IN  AttnDownBlock1D_loop(
                 StepEmit(StepAttn(s1, Head(as), {"hidden_states"} \cup s1.mapping.keys)),
                 Tail(rs), Tail(as))

\* AttnDownBlock1D.forward: "cross_attention_kwargs = cross_attention_kwargs if
\* cross_attention_kwargs is not None else {}" keeps the caller's object or
\* makes a fresh one; the down-sampled state is appended too
AttnDownBlock1D_forward(self, hidden_states, cross_attention_kwargs) ==
    LET s0 == [Start(hidden_states, <<>>) EXCEPT !.mapping = cross_attention_kwargs]
        st == StepResample(AttnDownBlock1D_loop(s0, self.resnets, self.attentions), self.down)
    IN  Done(IF self.down.kind = "None" THEN st ELSE StepEmit(st), self)

\* UpResnetBlock1D.forward: the last skip tensor is read, not removed, before the resnets
UpResnetBlock1D_forward(self, hidden_states, given, res_hidden_states_tuple) ==
    LET s0 == Start(hidden_states, res_hidden_states_tuple)
        s1 == IF ~given THEN s0
              ELSE IF s0.res = <<>> THEN Fail(s0, "IndexError")
              ELSE StepCat(s0, s0.res[Len(s0.res)])
    IN  Done(StepResample(ApplyResnets(s1, self.resnets), self.up), self)

\* bool(x) of an optional number in an "and" chain: None and 0 are false
PyTruthy(x) == x.some /\ x.v # 0

\* is_freeu_enabled with "is not None" tests in place of the truth values
is_freeu_enabled_present(self) == \A a \in FreeUNames : self.freeu[a].some

\* "getattr(self, 's1', None) and getattr(self, 's2', None) and
\*  getattr(self, 'b1', None) and getattr(self, 'b2', None)"
is_freeu_enabled(self) == \A a \in FreeUNames : PyTruthy(self.freeu[a])

\* "if is_freeu_enabled: hidden_states, res_hidden_states = apply_freeu(...)"
\* between the pop and the concatenation; the pair keeps its shapes
StepPopFreeU(st, enabled) ==
    IF st.err # "none" THEN st
    ELSE IF st.res = <<>> THEN Fail(st, "IndexError")
    ELSE StepPop(IF enabled THEN [st EXCEPT !.trace = Append(@, "freeu")] ELSE st)

\* the loop of UpBlock1D.forward and UpBlock1DNoSkip.forward: pop, rebalance,
\* concatenate, resnet
RECURSIVE UpBlock1D_loop(_, _, _, _, _)
UpBlock1D_loop(st, rs, scale, checkpoint, freeu) ==
    IF rs = <<>> THEN st
    ELSE UpBlock1D_loop(StepResnetCall(StepPopFreeU(st, freeu), Head(rs), scale, checkpoint),
                        Tail(rs), scale, checkpoint, freeu)

\* UpBlock1D.forward: the loop, then the up-sampler
UpBlock1D_forward(self, hidden_states, res_hidden_states_tuple, scale, training) ==
    Done(StepResample(UpBlock1D_loop(Start(hidden_states, res_hidden_states_tuple), self.resnets,
                                     scale, training /\ self.gradient_checkpointing,
                                     is_freeu_enabled(self)),
                      self.up),
         self)

\* the loop of AttnUpBlock1D.forward: pop, concatenate, resnet, attn(h, scale=scale)
RECURSIVE AttnUpBlock1D_loop(_, _, _)
AttnUpBlock1D_loop(st, rs, as) ==
    IF rs = <<>> \/ as = <<>> THEN st
    ELSE AttnUpBlock1D_loop(
             StepAttn(StepResnet(StepPop(st), Head(rs)), Head(as), {"hidden_states", "scale"}),
             Tail(rs), Tail(as))

\* AttnUpBlock1D.forward: the loop, then the up-sampler
AttnUpBlock1D_forward(self, hidden_states, res_hidden_states_tuple) ==
    Done(StepResample(AttnUpBlock1D_loop(Start(hidden_states, res_hidden_states_tuple),
                                         self.resnets, self.attentions),
                      self.up),
         self)

\* torch.cat([hidden_states, temb], dim=1): temb must be a tensor of the same
\* sequence length; its channels are added
StepCatTemb(st, temb) ==
    IF st.err # "none" THEN st
    ELSE IF temb = NoTensor THEN Fail(st, "TypeError")
    ELSE IF st.h.len # temb.len THEN Fail(st, "RuntimeError")
    ELSE [st EXCEPT !.h = Cat(st.h, temb), !.trace = Append(@, "cat_temb")]

\* DownBlock1DNoSkip.forward with every intermediate state emitted as well
DownBlock1DNoSkip_forward_all(self, hidden_states, temb) ==
    Done(DownBlock1D_loop(StepCatTemb(Start(hidden_states, <<>>), temb), self.resnets,
                          DefaultScale, FALSE),
         self)

\* DownBlock1DNoSkip.forward: the embedding is concatenated, the three blocks
\* are applied, and the final state is returned as the only skip state
DownBlock1DNoSkip_forward(self, hidden_states, temb) ==
    Done(StepEmit(ApplyResnets(StepCatTemb(Start(hidden_states, <<>>), temb), self.resnets)),
         self)

\* ValueFunctionMidBlock1D.forward: res1, down1, res2, down2
ValueFunctionMidBlock1D_forward(self, x) ==
    Done(StepResample(StepResnet(StepResample(StepResnet(Start(x, <<>>), self.resnets[1]),
                                              self.down),
                                 self.resnets[2]),
                      self.down2),
         self)

\* a convolution or linear layer: the channel (feature) count must be the one
\* it was built for
StepLayer(st, r, name) ==
    IF st.err # "none" THEN st
    ELSE IF st.h.ch # r.cin THEN Fail(st, "RuntimeError")
    ELSE [st EXCEPT !.h = Tensor(r.cout, st.h.len, 0), !.trace = Append(@, name)]

\* OutConv1DBlock.forward: conv, group norm, activation, conv; temb is a
\* parameter the body never reads
OutConv1DBlock_forward(self, hidden_states, temb) ==
    Done(StepLayer(StepLayer(Start(hidden_states, <<>>), self.resnets[1], "conv"),
                   self.resnets[2], "conv"),
         self)

\* "hidden_states.view(hidden_states.shape[0], -1)": channels times length
\* features, no length axis (written as length 1)
StepFlatten(st) ==
    IF st.err # "none" THEN st
    ELSE [st EXCEPT !.h = Tensor(st.h.ch * st.h.len, 1, 0), !.trace = Append(@, "view")]

\* OutValueFunctionBlock.forward: flatten, concatenate the embedding, then the
\* two linear layers
OutValueFunctionBlock_forward(self, hidden_states, temb) ==
    Done(StepLayer(StepLayer(StepCatTemb(StepFlatten(Start(hidden_states, <<>>)), temb),
                             self.resnets[1], "linear"),
                   self.resnets[2], "linear"),
         self)

\* SelfAttention1d.forward on its own
SelfAttention1d_forward(self, hidden_states) ==
    Done(StepAttn(Start(hidden_states, <<>>), self.attentions[1], {"hidden_states"}), self)

\* the loop of UNetMidBlock1D.forward with the resnet of a pair before its attention
RECURSIVE UNetMidBlock1D_loop_resnet_first(_, _, _)
UNetMidBlock1D_loop_resnet_first(st, as, rs) ==
    IF as = <<>> \/ rs = <<>> THEN st
    ELSE UNetMidBlock1D_loop_resnet_first(
             StepAttn(StepResnet(st, Head(rs)), Head(as), {"hidden_states"}), Tail(as), Tail(rs))

\* the loop of UNetMidBlock1D.forward over zip(self.attentions, self.resnets[1:]):
\* the attention when the slot holds one, then the resnet
RECURSIVE UNetMidBlock1D_loop(_, _, _)
UNetMidBlock1D_loop(st, as, rs) ==
    IF as = <<>> \/ rs = <<>> THEN st
    ELSE UNetMidBlock1D_loop(StepResnet(StepAttn(st, Head(as), {"hidden_states"}), Head(rs)),
                             Tail(as), Tail(rs))

\* UNetMidBlock1D.forward: resnets[0], then the (attention, resnet) pairs
UNetMidBlock1D_forward(self, hidden_states) ==
    Done(UNetMidBlock1D_loop(StepResnet(Start(hidden_states, <<>>), self.resnets[1]),
                             self.attentions, Tail(self.resnets)),
         self)

\* "self.upsamplers": an attribute __init__ never set raises AttributeError
StepGetattr(st, self, name) ==
    IF st.err = "none" /\ name \notin self.attrs THEN Fail(st, "AttributeError") ELSE st

\* UpBlock1DNoSkip.forward: the loop, then "if self.upsamplers is not None"
UpBlock1DNoSkip_forward(self, hidden_states, res_hidden_states_tuple, scale, training) ==
    Done(StepResample(StepGetattr(UpBlock1D_loop(Start(hidden_states, res_hidden_states_tuple),
                                                 self.resnets, scale,
                                                 training /\ self.gradient_checkpointing,
                                                 is_freeu_enabled(self)),
                                  self, "upsamplers"),
                      self.up),
         self)

\* the outcomes of "self.downsample = <tensor>" on an nn.Module whose attribute
\* downsample holds a sub-module: the base class, which is not part of the file,
\* either rebinds the attribute or rejects the value with TypeError
SetattrOutcomes == {"rebind", "reject"}

\* MidResTemporalBlock1D.forward: line 224 assigns the down-sampled tensor to
\* self.downsample, not to hidden_states
MidResTemporalBlock1D_forward(self, hidden_states, setattr) ==
    LET s1 == StepResample(ApplyResnets(Start(hidden_states, <<>>), self.resnets), self.up)
    IN  IF s1.err # "none" \/ self.down.kind = "None" THEN Done(s1, self)
        ELSE IF self.down.kind = "Tensor" THEN Done(Fail(s1, "RuntimeError"), self)
        ELSE LET s2 == StepResample(s1, self.down)
             IN  IF s2.err # "none" THEN Done(s2, self)
                 ELSE IF setattr = "reject" THEN Done(Fail(s1, "TypeError"), self)
                 ELSE Done([s1 EXCEPT !.trace = s2.trace], [self EXCEPT !.down = TensorSlot(s2.h)])

(* ------------------------------- state --------------------------------- *)
VARIABLES
    inst,   \* the block instance under evaluation (NoInst when there is none)
    prev,   \* the instance as it was before the last call
    call,   \* the last call: operation, type or class name, arguments
    out,    \* what the last call returned or raised
    calls,  \* forward calls made on inst so far
    pipe    \* an encoder-decoder run over a skip-state collection

vars == <<inst, prev, call, out, calls, pipe>>

DownTypes == {"DownResnetBlock1D", "DownBlock1D", "AttnDownBlock1D", "DownBlock1DNoSkip"}
UpTypes == {"UpResnetBlock1D", "UpBlock1D", "AttnUpBlock1D", "UpBlock1DNoSkip"}
MidTypes == {"MidResTemporalBlock1D", "ValueFunctionMidBlock1D", "UNetMidBlock1D"}
OutTypes == {"OutConv1DBlock", "ValueFunction"}
\* the type names callers pass: every recognized one, and some that no factory knows
\* ("None" stands for Python's None)
TypeNames == DownTypes \cup UpTypes \cup MidTypes \cup OutTypes
                 \cup {"NotARealBlock", "DownBlock2D", "OutValueFunctionBlock", "", "None"}

AhdSet == {None, Some(1), Some(4), Some(16)}
\* head counts a caller passes to SelfAttention1d
HeadSet == 0..3
KindSet == {"None", "conv", "resnet"}

\* the embedding argument of a forward call: not passed, passed as None, a tensor
TembUnset == [given |-> FALSE, t |-> NoTensor]
TembNone == [given |-> TRUE, t |-> NoTensor]
TembOf(t) == [given |-> TRUE, t |-> t]
TembSet == {TembUnset, TembNone, TembOf(Tensor(4, 8, 0))}

\* what a forward call is made with besides the hidden state and the skip tuple:
\* the embedding, the scale and self.training
Env(temb, scale, training) == [temb |-> temb, scale |-> scale, training |-> training]
DefaultEnv == Env(TembUnset, DefaultScale, FALSE)
\* calls of the blocks whose forward takes no scale and reads no training flag
PlainEnvs == {Env(t, DefaultScale, FALSE) : t \in TembSet \ {TembNone}}
\* calls of the blocks whose forward takes a scale and reads self.training
ScaledEnvs == PlainEnvs \cup {Env(TembUnset, 2, tr) : tr \in BOOLEAN}
\* calls of the blocks whose forward requires the embedding
TembEnvs == {Env(t, DefaultScale, FALSE) : t \in TembSet \ {TembUnset}}

\* the keyword names a forward call passes
Passed(given, kwargs, env) ==
    (IF given THEN {"res_hidden_states_tuple"} ELSE {})
        \cup (IF kwargs.given THEN {"cross_attention_kwargs"} ELSE {})
        \cup (IF env.temb.given THEN {"temb"} ELSE {})
        \cup (IF env.scale # DefaultScale THEN {"scale"} ELSE {})

NoCall == [op |-> "-", name |-> "-", L |-> 0, down |-> FALSE, up |-> FALSE, type |-> "-",
           env |-> DefaultEnv, h |-> NoTensor, given |-> FALSE, res |-> <<>>,
           kwargs |-> NoMapping]
NoOut == [err |-> "none", msg |-> "", none |-> FALSE, h |-> NoTensor, states |-> <<>>,
          cats |-> <<>>, trace |-> <<>>, scales |-> <<>>, res |-> <<>>,
          arg_res |-> <<>>, kwargs |-> NoMapping]
IdlePipe == [phase |-> "idle", family |-> "-", L |-> 0, policy |-> "-", stages |-> 0,
             downs |-> <<>>, ups |-> <<>>, i |-> 0, h0 |-> NoTensor,
             h |-> NoTensor, skips |-> <<>>, pushes |-> 0, pops |-> 0, err |-> "none"]

Init ==
    /\ inst = NoInst
    /\ prev = NoInst
    /\ call = NoCall
    /\ out = NoOut
    /\ calls = 0
    /\ pipe = IdlePipe

\* nothing has been built yet
Fresh == call.op = "-" /\ pipe.phase = "idle"

\* the caller drops what it built and starts over
Release ==
    /\ ~Fresh
    /\ inst' = NoInst /\ prev' = NoInst /\ call' = NoCall /\ out' = NoOut /\ calls' = 0
    /\ pipe' = IdlePipe

\* a constructor or factory call ended: its result becomes the instance under evaluation
Install(op, name, L, d, u, k, r) ==
    /\ inst' = r.inst
    /\ prev' = NoInst
    /\ call' = [NoCall EXCEPT !.op = op, !.name = name, !.L = L, !.down = d, !.up = u,
                              !.type = k]
    /\ out' = [NoOut EXCEPT !.err = r.err, !.msg = r.msg, !.none = r.none]
    /\ calls' = 0
    /\ pipe' = IdlePipe

\* a forward call ended: the call is bound to the signature first (a name the
\* signature lacks raises TypeError before the body runs); a repeated call on
\* an instance is made with the arguments of the first
Forwarded(h, given, res, kwargs, env, r) ==
    LET bound == Passed(given, kwargs, env) \subseteq ForwardParams(inst.cls)
        st == IF bound THEN r.st ELSE Fail(Start(h, res), "TypeError")
    IN
    /\ calls > 0 =>
           /\ h = call.h /\ given = call.given /\ res = call.res
           /\ kwargs = call.kwargs /\ env = call.env
    /\ inst' = IF bound THEN r.self ELSE inst
    /\ prev' = inst
    /\ call' = [NoCall EXCEPT !.op = "forward", !.name = inst.cls, !.L = inst.num_layers,
                              !.h = h, !.given = given, !.res = res, !.kwargs = kwargs,
                              !.env = env]
    /\ out' = [NoOut EXCEPT !.err = st.err, !.msg = IF bound THEN "" ELSE "forward",
                            !.h = IF st.err = "none" THEN st.h ELSE NoTensor,
                            !.states = IF st.err = "none" THEN st.states ELSE <<>>,
                            !.cats = st.cats, !.trace = st.trace, !.scales = st.scales,
                            !.res = st.res, !.arg_res = st.arg_res,
                            !.kwargs = IF bound /\ kwargs.given THEN st.mapping ELSE kwargs]
    /\ calls' = calls + 1
    /\ pipe' = pipe

\* a caller's skip-state tuple: k tensors tagged 1..k in append order
SkipTuple(k, c, n) == [j \in 1..k |-> Tensor(c, n, j)]

(* ------------------------- direct constructions ------------------------ *)
NewDownResnetBlock1D ==
    /\ Fresh
    /\ \E i \in ChanSet, o \in ChanSet, L \in Layers, d \in BOOLEAN :
        Install("init", "DownResnetBlock1D", L, d, FALSE, "-", DownResnetBlock1D_init(i, o, L, d))

NewDownBlock1D ==
    /\ Fresh
    /\ \E i \in ChanSet, o \in ChanSet, L \in Layers, d \in BOOLEAN :
        Install("init", "DownBlock1D", L, d, FALSE, "-", DownBlock1D_init(i, o, L, d))

NewAttnDownBlock1D ==
    /\ Fresh
    /\ \E i \in ChanSet, o \in ChanSet, L \in Layers, a \in AhdSet, k \in KindSet :
        Install("init", "AttnDownBlock1D", L, k # "None", FALSE, k, AttnDownBlock1D_init(i, o, L, a, k))

NewUpResnetBlock1D ==
    /\ Fresh
    /\ \E i \in ChanSet, o \in ChanSet, L \in Layers, u \in BOOLEAN :
        Install("init", "UpResnetBlock1D", L, FALSE, u, "-", UpResnetBlock1D_init(i, o, L, u))

NewUpBlock1D ==
    /\ Fresh
    /\ \E i \in ChanSet, sc \in ChanSet, o \in ChanSet, L \in Layers, u \in BOOLEAN :
        Install("init", "UpBlock1D", L, FALSE, u, "-", UpBlock1D_init(i, sc, o, L, u))

NewAttnUpBlock1D ==
    /\ Fresh
    /\ \E i \in ChanSet, sc \in ChanSet, o \in ChanSet, L \in Layers, a \in AhdSet, k \in KindSet :
        Install("init", "AttnUpBlock1D", L, FALSE, k # "None", k, AttnUpBlock1D_init(i, sc, o, L, a, k))

NewUpBlock1DNoSkip ==
    /\ Fresh
    /\ \E i \in ChanSet, sc \in ChanSet, o \in ChanSet, L \in Layers :
        Install("init", "UpBlock1DNoSkip", L, FALSE, FALSE, "-", UpBlock1DNoSkip_init(i, sc, o, L))

NewMidResTemporalBlock1D ==
    /\ Fresh
    /\ \E i \in ChanSet, o \in ChanSet, L \in Layers, d \in BOOLEAN, u \in BOOLEAN :
        Install("init", "MidResTemporalBlock1D", L, d, u, "-", MidResTemporalBlock1D_init(i, o, L, d, u))

NewSelfAttention1d ==
    /\ Fresh
    /\ \E c \in ChanSet, n \in HeadSet :
        Install("init", "SelfAttention1d", 0, FALSE, FALSE, "-",
                Call("SelfAttention1d", {"in_channels", "n_head"},
                     Built(Inst("SelfAttention1d", 0, c, c, <<>>, <<SelfAttention1d_init(c, n)>>,
                                NoneSlot, NoneSlot, "-",
                                {"channels", "group_norm", "num_heads", "query", "key", "value",
                                 "proj_attn", "dropout"}))))

NewUNetMidBlock1D ==
    /\ Fresh
    /\ \E c \in ChanSet, L \in Layers, att \in BOOLEAN, a \in AhdSet :
        Install("init", "UNetMidBlock1D", L, FALSE, FALSE, "-", UNetMidBlock1D_init(c, L, att, a))

(* ----------------------------- factory calls --------------------------- *)
GetDownBlock ==
    /\ Fresh
    /\ \E t \in TypeNames, L \in Layers, i \in ChanSet, o \in ChanSet, d \in BOOLEAN,
       a \in AhdSet, k \in KindSet :
        Install("get_down_block", t, L, d, FALSE, k, get_down_block(t, L, i, o, d, a, k))

GetUpBlock ==
    /\ Fresh
    /\ \E t \in TypeNames, L \in Layers, i \in ChanSet, o \in ChanSet, sc \in ChanSet,
       u \in BOOLEAN, nh \in {None, Some(2)}, a \in AhdSet, k \in KindSet :
        Install("get_up_block", t, L, FALSE, u, k, get_up_block(t, L, i, o, sc, u, nh, a, k))

GetMidBlock ==
    /\ Fresh
    /\ \E t \in TypeNames, L \in Layers, i \in ChanSet, o \in ChanSet, d \in BOOLEAN,
       a \in AhdSet, att \in BOOLEAN :
        Install("get_mid_block", t, L, d, FALSE, "-", get_mid_block(t, L, i, o, d, a, att))

GetOutBlock ==
    /\ Fresh
    /\ \E t \in TypeNames, i \in ChanSet, o \in ChanSet, e \in ChanSet, f \in ChanSet :
        Install("get_out_block", t, 0, FALSE, FALSE, "-", get_out_block(t, i, o, e, f))

(* ------------------- attributes set by the owner of a block ------------ *)
\* the rebalancing settings an owner installs: every parameter set to 1, or all
\* but one, which is left out (b2) or set to 0 (s1)
FreeUSettings ==
    {[a \in FreeUNames |-> Some(1)],
     [a \in FreeUNames |-> IF a = "b2" THEN None ELSE Some(1)],
     [a \in FreeUNames |-> IF a = "s1" THEN Some(0) ELSE Some(1)]}

\* "block.gradient_checkpointing = True" on a block that has the flag
SetGradientCheckpointing ==
    /\ inst.cls \in {"DownBlock1D", "UpBlock1D", "UpBlock1DNoSkip"}
    /\ calls = 0 /\ ~inst.gradient_checkpointing /\ inst.freeu = NoFreeU
    /\ inst' = [inst EXCEPT !.gradient_checkpointing = TRUE]
    /\ UNCHANGED <<prev, call, out, calls, pipe>>

\* "setattr(block, 's1', s1)" and so on, on an Up block that reads them
EnableFreeU ==
    /\ inst.cls \in {"UpBlock1D", "UpBlock1DNoSkip"}
    /\ calls = 0 /\ inst.freeu = NoFreeU /\ ~inst.gradient_checkpointing
    /\ \E f \in FreeUSettings : inst' = [inst EXCEPT !.freeu = f]
    /\ UNCHANGED <<prev, call, out, calls, pipe>>

(* ----------------------------- forward calls --------------------------- *)
ForwardDownResnetBlock1D ==
    /\ inst.cls = "DownResnetBlock1D" /\ calls < MaxCalls
    /\ \E e \in PlainEnvs, c \in ChanSet, n \in SeqLens :
        Forwarded(Tensor(c, n, 0), FALSE, <<>>, NoMapping, e,
                  DownResnetBlock1D_forward(inst, Tensor(c, n, 0)))

ForwardDownBlock1D ==
    /\ inst.cls = "DownBlock1D" /\ calls < MaxCalls
    /\ \E e \in ScaledEnvs, c \in ChanSet, n \in SeqLens :
        Forwarded(Tensor(c, n, 0), FALSE, <<>>, NoMapping, e,
                  DownBlock1D_forward(inst, Tensor(c, n, 0), e.scale, e.training))

ForwardAttnDownBlock1D ==
    /\ inst.cls = "AttnDownBlock1D" /\ calls < MaxCalls
    /\ \E e \in PlainEnvs, c \in ChanSet, n \in SeqLens, kw \in {NoMapping, Mapping({}), Mapping({"scale"})} :
        Forwarded(Tensor(c, n, 0), FALSE, <<>>, kw, e,
                  AttnDownBlock1D_forward(inst, Tensor(c, n, 0), kw))

ForwardUpResnetBlock1D ==
    /\ inst.cls = "UpResnetBlock1D" /\ calls < MaxCalls
    /\ \E e \in PlainEnvs, c \in ChanSet, n \in SeqLens, g \in BOOLEAN, k \in 0..MaxSkips, sc \in ChanSet :
        LET res == IF g THEN SkipTuple(k, sc, n) ELSE <<>>
        IN  Forwarded(Tensor(c, n, 0), g, res, NoMapping, e,
                      UpResnetBlock1D_forward(inst, Tensor(c, n, 0), g, res))

ForwardUpBlock1D ==
    /\ inst.cls = "UpBlock1D" /\ calls < MaxCalls
    /\ \E e \in ScaledEnvs, c \in ChanSet, n \in SeqLens, k \in 0..MaxSkips, sc \in ChanSet :
        Forwarded(Tensor(c, n, 0), TRUE, SkipTuple(k, sc, n), NoMapping, e,
                  UpBlock1D_forward(inst, Tensor(c, n, 0), SkipTuple(k, sc, n), e.scale, e.training))

ForwardAttnUpBlock1D ==
    /\ inst.cls = "AttnUpBlock1D" /\ calls < MaxCalls
    /\ \E e \in PlainEnvs, c \in ChanSet, n \in SeqLens, k \in 0..MaxSkips, sc \in ChanSet :
        Forwarded(Tensor(c, n, 0), TRUE, SkipTuple(k, sc, n), NoMapping, e,
                  AttnUpBlock1D_forward(inst, Tensor(c, n, 0), SkipTuple(k, sc, n)))

ForwardUpBlock1DNoSkip ==
    /\ inst.cls = "UpBlock1DNoSkip" /\ calls < MaxCalls
    /\ \E e \in ScaledEnvs, c \in ChanSet, n \in SeqLens, k \in 0..MaxSkips, sc \in ChanSet :
        Forwarded(Tensor(c, n, 0), TRUE, SkipTuple(k, sc, n), NoMapping, e,
                  UpBlock1DNoSkip_forward(inst, Tensor(c, n, 0), SkipTuple(k, sc, n), e.scale,
                                          e.training))

ForwardMidResTemporalBlock1D ==
    /\ inst.cls = "MidResTemporalBlock1D" /\ calls < MaxCalls
    /\ \E e \in TembEnvs, c \in ChanSet, n \in SeqLens, sa \in SetattrOutcomes :
        Forwarded(Tensor(c, n, 0), FALSE, <<>>, NoMapping, e,
                  MidResTemporalBlock1D_forward(inst, Tensor(c, n, 0), sa))

\* the embedding is concatenated on the channel axis, so it has a sequence length
ForwardDownBlock1DNoSkip ==
    /\ inst.cls = "DownBlock1DNoSkip" /\ calls < MaxCalls
    /\ \E c \in ChanSet, n \in SeqLens,
          t \in {TembUnset, TembNone} \cup {TembOf(Tensor(tc, tn, 0)) : tc \in ChanSet, tn \in SeqLens} :
        Forwarded(Tensor(c, n, 0), FALSE, <<>>, NoMapping, Env(t, DefaultScale, FALSE),
                  DownBlock1DNoSkip_forward(inst, Tensor(c, n, 0), t.t))

ForwardValueFunctionMidBlock1D ==
    /\ inst.cls = "ValueFunctionMidBlock1D" /\ calls < MaxCalls
    /\ \E e \in PlainEnvs, c \in ChanSet, n \in SeqLens :
        Forwarded(Tensor(c, n, 0), FALSE, <<>>, NoMapping, e,
                  ValueFunctionMidBlock1D_forward(inst, Tensor(c, n, 0)))

ForwardOutConv1DBlock ==
    /\ inst.cls = "OutConv1DBlock" /\ calls < MaxCalls
    /\ \E t \in TembSet, c \in ChanSet, n \in SeqLens :
        Forwarded(Tensor(c, n, 0), FALSE, <<>>, NoMapping, Env(t, DefaultScale, FALSE),
                  OutConv1DBlock_forward(inst, Tensor(c, n, 0), t.t))

\* the value head is called on a hidden state of one position and an embedding
\* without a length axis
ForwardOutValueFunctionBlock ==
    /\ inst.cls = "OutValueFunctionBlock" /\ calls < MaxCalls
    /\ \E c \in ChanSet, t \in {TembUnset, TembNone} \cup {TembOf(Tensor(tc, 1, 0)) : tc \in ChanSet} :
        Forwarded(Tensor(c, 1, 0), FALSE, <<>>, NoMapping, Env(t, DefaultScale, FALSE),
                  OutValueFunctionBlock_forward(inst, Tensor(c, 1, 0), t.t))

ForwardSelfAttention1d ==
    /\ inst.cls = "SelfAttention1d" /\ calls < MaxCalls
    /\ \E e \in {DefaultEnv}, c \in ChanSet, n \in SeqLens :
        Forwarded(Tensor(c, n, 0), FALSE, <<>>, NoMapping, e, SelfAttention1d_forward(inst, Tensor(c, n, 0)))

ForwardUNetMidBlock1D ==
    /\ inst.cls = "UNetMidBlock1D" /\ calls < MaxCalls
    /\ \E e \in PlainEnvs, c \in ChanSet, n \in SeqLens :
        Forwarded(Tensor(c, n, 0), FALSE, <<>>, NoMapping, e, UNetMidBlock1D_forward(inst, Tensor(c, n, 0)))

(* ----------------------- encoder-decoder pipeline ---------------------- *)
Families == {"Resnet", "Block", "Attn"}

\* the Down block of one stage of a family, all channel counts equal to c
StageDown(family, c, L, resample) ==
    IF family = "Resnet" THEN DownResnetBlock1D_init(c, c, L, resample)
    ELSE IF family = "Block" THEN DownBlock1D_init(c, c, L, resample)
    ELSE AttnDownBlock1D_init(c, c, L, Some(1), IF resample THEN "conv" ELSE "None")

\* the Up block mirroring it, with the same num_layers
StageUp(family, c, L, resample) ==
    IF family = "Resnet" THEN UpResnetBlock1D_init(c, c, L, resample)
    ELSE IF family = "Block" THEN UpBlock1D_init(c, c, c, L, resample)
    ELSE AttnUpBlock1D_init(c, c, c, L, Some(1), IF resample THEN "conv" ELSE "None")

DownForward(self, h) ==
    IF self.cls = "DownResnetBlock1D" THEN DownResnetBlock1D_forward(self, h)
    ELSE IF self.cls = "DownBlock1D" THEN DownBlock1D_forward(self, h, DefaultScale, FALSE)
    ELSE AttnDownBlock1D_forward(self, h, NoMapping)

UpForward(self, h, res) ==
    IF self.cls = "UpResnetBlock1D" THEN UpResnetBlock1D_forward(self, h, TRUE, res)
    ELSE IF self.cls = "UpBlock1D" THEN UpBlock1D_forward(self, h, res, DefaultScale, FALSE)
    ELSE AttnUpBlock1D_forward(self, h, res)

\* the skip-state collection after appending a block's output_states
Pushed(skips, states) ==
    skips \o [j \in 1..Len(states) |-> [states[j] EXCEPT !.tag = Len(skips) + j]]

\* network assembly: n Down blocks and the n Up blocks mirroring them in reverse;
\* stage s resamples under policy "all", or under "inner" unless it is the last
PipeBuild ==
    /\ Fresh
    /\ \E family \in Families, L \in Layers, policy \in {"none", "inner", "all"},
          n \in 1..MaxStages, c \in ChanSet, len \in SeqLens :
        LET rs(s) == policy = "all" \/ (policy = "inner" /\ s < n)
            ds == [s \in 1..n |-> StageDown(family, c, L, rs(s))]
            us == [j \in 1..n |-> StageUp(family, c, L, rs(n + 1 - j))]
            bad == {s \in 1..n : ds[s].err # "none" \/ us[s].err # "none"}
            asked == [IdlePipe EXCEPT !.family = family, !.L = L, !.policy = policy,
                                      !.stages = n, !.h0 = Tensor(c, len, 0)]
        IN  pipe' = IF bad # {}
                    THEN [asked EXCEPT !.phase = "failed", !.err = "TypeError"]
                    ELSE [asked EXCEPT !.phase = "enc",
                                          !.downs = [s \in 1..n |-> ds[s].inst],
                                          !.ups = [s \in 1..n |-> us[s].inst],
                                          !.i = 1, !.h = Tensor(c, len, 0)]
    /\ inst' = NoInst /\ prev' = NoInst /\ call' = NoCall /\ out' = NoOut /\ calls' = 0

\* one encoder stage: the Down block's output_states are appended to the collection
PipeDown ==
    /\ pipe.phase = "enc"
    /\ LET r == DownForward(pipe.downs[pipe.i], pipe.h)
           last == pipe.i = Len(pipe.downs)
       IN  pipe' = IF r.st.err # "none"
                   THEN [pipe EXCEPT !.phase = "failed", !.err = r.st.err]
                   ELSE [pipe EXCEPT !.phase = IF last THEN "dec" ELSE "enc",
                                     !.i = IF last THEN 1 ELSE pipe.i + 1,
                                     !.h = r.st.h,
                                     !.skips = Pushed(pipe.skips, r.st.states),
                                     !.pushes = pipe.pushes + Len(r.st.states)]
    /\ UNCHANGED <<inst, prev, call, out, calls>>

\* one decoder stage: the Up block is given the collection and what it
\* concatenated is removed from the tail
PipeUp ==
    /\ pipe.phase = "dec"
    /\ LET r == UpForward(pipe.ups[pipe.i], pipe.h, pipe.skips)
           used == Len(r.st.cats)
           last == pipe.i = Len(pipe.ups)
       IN  pipe' = IF r.st.err # "none"
                   THEN [pipe EXCEPT !.phase = "failed", !.err = r.st.err]
                   ELSE [pipe EXCEPT !.phase = IF last THEN "done" ELSE "dec",
                                     !.i = IF last THEN pipe.i ELSE pipe.i + 1,
                                     !.h = r.st.h,
                                     !.skips = SubSeq(pipe.skips, 1, Len(pipe.skips) - used),
                                     !.pops = pipe.pops + used]
    /\ UNCHANGED <<inst, prev, call, out, calls>>

Next ==
    \/ NewDownResnetBlock1D \/ NewDownBlock1D \/ NewAttnDownBlock1D
    \/ NewUpResnetBlock1D \/ NewUpBlock1D \/ NewAttnUpBlock1D \/ NewUpBlock1DNoSkip
    \/ NewMidResTemporalBlock1D \/ NewSelfAttention1d \/ NewUNetMidBlock1D
    \/ GetDownBlock \/ GetUpBlock \/ GetMidBlock \/ GetOutBlock
    \/ ForwardDownResnetBlock1D \/ ForwardDownBlock1D \/ ForwardAttnDownBlock1D
    \/ ForwardUpResnetBlock1D \/ ForwardUpBlock1D \/ ForwardAttnUpBlock1D
    \/ ForwardUpBlock1DNoSkip \/ ForwardMidResTemporalBlock1D
    \/ ForwardSelfAttention1d \/ ForwardUNetMidBlock1D \/ ForwardDownBlock1DNoSkip
    \/ ForwardValueFunctionMidBlock1D
    \/ SetGradientCheckpointing \/ EnableFreeU
    \/ ForwardOutConv1DBlock \/ ForwardOutValueFunctionBlock
    \/ PipeBuild \/ PipeDown \/ PipeUp
    \/ Release

Spec == Init /\ [][Next]_vars

(* ------------------------------- claims -------------------------------- *)
IsForward(cls) == call.op = "forward" /\ call.name = cls
Returned == out.err = "none"
\* tensors removed from the supplied skip tuple by the last forward call
Popped == Len(call.res) - Len(out.res)
\* resnet sub-blocks applied by the last forward call
ResnetsApplied == Cardinality({k \in DOMAIN out.trace : out.trace[k] = "resnet"})
Resampling(self) == self.down.kind = "Module" \/ self.up.kind = "Module"
Bit(b) == IF b THEN 1 ELSE 0

\* C1 as stated: a Down block built with num_layers = L emits L + 1 skip states
\* with resampling and L without.
C1_SkipCountAsClaimed ==
    (call.op = "forward" /\ Returned
        /\ call.name \in {"DownResnetBlock1D", "DownBlock1D", "AttnDownBlock1D"})
    => Len(out.states) = prev.num_layers + Bit(Resampling(prev))

\* C1 amended: DownResnetBlock1D emits exactly one skip state and DownBlock1D
\* exactly L, each with or without resampling; AttnDownBlock1D emits L + 1 with
\* resampling and L without.
C1_SkipCount ==
    (call.op = "forward" /\ Returned) =>
        /\ call.name = "DownResnetBlock1D" => Len(out.states) = 1
        /\ call.name = "DownBlock1D" => Len(out.states) = prev.num_layers
        /\ call.name = "AttnDownBlock1D" =>
               Len(out.states) = prev.num_layers + Bit(Resampling(prev))

C1_Witness ==
    /\ IsForward("DownBlock1D") /\ Returned
    /\ prev.num_layers = 2 /\ Resampling(prev) /\ Len(out.states) = 2

\* C2: a pipeline of mirrored Down/Up blocks with matching num_layers that ran
\* to its end has consumed the skip-state collection to empty, pushes = pops.
C2_PipelineDrained ==
    pipe.phase = "done" => pipe.skips = <<>> /\ pipe.pushes = pipe.pops

\* C3 as stated: every Up block built with num_layers = L has exactly L resnets
\* and its forward pops exactly L tensors.
C3_UpPopsAsClaimed ==
    inst.cls \in UpTypes =>
        /\ Len(inst.resnets) = inst.num_layers
        /\ (call.op = "forward" /\ Returned) => Popped = inst.num_layers

\* C3 amended: UpBlock1D, AttnUpBlock1D and UpBlock1DNoSkip have exactly L
\* resnets and pop exactly one tensor from the tail per resnet iteration, L in
\* all once the loop has run to its end; UpResnetBlock1D has L + 1 resnets and
\* reads the last tensor once without removing any.
C3_UpPops ==
    inst.cls \in UpTypes =>
        /\ Len(inst.resnets) = inst.num_layers + Bit(inst.cls = "UpResnetBlock1D")
        /\ (call.op = "forward" /\ inst.cls # "UpResnetBlock1D") =>
               /\ Popped = Len(out.cats)
               /\ Popped \in {ResnetsApplied, ResnetsApplied + 1}
               /\ Popped > ResnetsApplied => ~Returned
               /\ ResnetsApplied = inst.num_layers => Popped = inst.num_layers
               /\ Returned => Popped = inst.num_layers
        /\ (call.op = "forward" /\ inst.cls = "UpResnetBlock1D") =>
               /\ Popped = 0
               /\ Len(out.cats) <= 1
               /\ (Returned /\ call.given) => Len(out.cats) = 1

C3_Witness ==
    /\ IsForward("UpBlock1D") /\ Returned
    /\ inst.num_layers = 2 /\ Len(call.res) = 3 /\ Popped = 2

Recognized(op) ==
    CASE op = "get_down_block" -> DownTypes
      [] op = "get_up_block" -> UpTypes
      [] op = "get_mid_block" -> MidTypes
      [] op = "get_out_block" -> OutTypes
      [] OTHER -> {}

\* C5: get_down_block, get_up_block and get_mid_block raise an error naming the
\* type for every type name they do not recognize, and return no block.
C5_UnknownTypeRaises ==
    (call.op \in {"get_down_block", "get_up_block", "get_mid_block"}
        /\ call.name \notin Recognized(call.op))
    => out.err = "ValueError" /\ out.msg = call.name /\ inst = NoInst /\ ~out.none

C5_Witness ==
    /\ call.op = "get_down_block" /\ call.name = "NotARealBlock"
    /\ out.err = "ValueError" /\ out.msg = "NotARealBlock"

\* C6: get_out_block raises an error naming the type for a type name that is
\* neither recognized nor None; it returns None only when no head is requested.
C6_OutUnknownRaises ==
    (call.op = "get_out_block" /\ call.name \notin Recognized(call.op) \cup {"None"})
    => out.err # "none" /\ out.msg = call.name /\ ~out.none

\* the class a recognized type name stands for
ClassOf(name) == IF name = "ValueFunction" THEN "OutValueFunctionBlock" ELSE name

\* C7: a factory call with a recognized type name returns an instance of the
\* named variant and never fails.
C7_RecognizedBuilds ==
    (call.op \in {"get_down_block", "get_up_block", "get_mid_block", "get_out_block"}
        /\ call.name \in Recognized(call.op))
    => out.err = "none" /\ ~out.none /\ inst.cls = ClassOf(call.name)

\* C8: a forward call leaves the instance, its sub-block references included,
\* as it was before the call.
C8_ForwardKeepsInstance ==
    call.op = "forward" => inst = prev

\* C9: MidResTemporalBlock1D.forward on an input of in_channels channels returns
\* out_channels channels at half the length with a down-sampler, double the
\* length with an up-sampler, the same length with neither.
C9_MidResLength ==
    (IsForward("MidResTemporalBlock1D") /\ calls = 1 /\ call.h.ch = prev.in_channels) =>
        /\ Returned
        /\ out.h.ch = prev.out_channels
        /\ out.h.len = IF prev.down.kind = "Module" THEN call.h.len \div 2
                       ELSE IF prev.up.kind = "Module" THEN call.h.len * 2
                       ELSE call.h.len

\* C10: constructing MidResTemporalBlock1D raises ValueError exactly when both
\* add_downsample and add_upsample are set, whatever the other parameters.
C10_BothFlagsRaise ==
    (call.op = "init" /\ call.name = "MidResTemporalBlock1D") =>
        /\ (call.down /\ call.up) => out.err = "ValueError" /\ inst = NoInst
        /\ ~(call.down /\ call.up) => out.err = "none" /\ inst.cls = "MidResTemporalBlock1D"

C10_Witness ==
    /\ call.op = "init" /\ call.name = "MidResTemporalBlock1D"
    /\ call.down /\ call.up /\ call.L = 2 /\ out.err = "ValueError"

\* a one-stage round trip of a family with num_layers = 1 and resampling on in
\* both blocks, whose two blocks were constructed, has ended
RoundTripEnded ==
    /\ pipe.L = 1 /\ pipe.policy = "all" /\ pipe.stages = 1
    /\ pipe.downs # <<>> /\ pipe.phase \in {"done", "failed"}

\* C11: feeding a Down block's output and skip tuple to the symmetric Up block
\* (num_layers = 1, resampling on) never concatenates tensors of unequal length,
\* and gives back the input's sequence length with the Up block's out_channels.
C11_RoundTripRestores ==
    RoundTripEnded =>
        /\ pipe.phase = "done"
        /\ pipe.h.len = pipe.h0.len
        /\ pipe.h.ch = pipe.ups[1].out_channels

\* the resampler slot of a block built by get_down_block / get_up_block
ResamplerSlot == IF call.op = "get_down_block" THEN inst.down ELSE inst.up
\* add_downsample / add_upsample of the factory call
ResampleAsked == IF call.op = "get_down_block" THEN call.down ELSE call.up
ConvOp == IF call.op = "get_down_block" THEN "Downsample1D" ELSE "Upsample1D"
ResnetOp == IF call.op = "get_down_block" THEN "ResnetBlock1D.down" ELSE "ResnetBlock1D.up"
AttnFactoryBuilt ==
    /\ \/ call.op = "get_down_block" /\ call.name = "AttnDownBlock1D"
       \/ call.op = "get_up_block" /\ call.name = "AttnUpBlock1D"
    /\ Returned

\* C12: an attention Down/Up block built through its factory has a convolutional
\* resampler when resampling is asked for and no kind is given, the resampler of
\* the given kind when one is given, and no resampler when resampling is not
\* asked for, whatever kind is given.
C12_ResampleKindDefault ==
    AttnFactoryBuilt =>
        /\ (ResampleAsked /\ call.type = "None") =>
               inst.kind = "conv" /\ ResamplerSlot = ModuleSlot(ConvOp, inst.out_channels)
        /\ (ResampleAsked /\ call.type = "conv") =>
               inst.kind = "conv" /\ ResamplerSlot = ModuleSlot(ConvOp, inst.out_channels)
        /\ (ResampleAsked /\ call.type = "resnet") =>
               inst.kind = "resnet" /\ ResamplerSlot = ModuleSlot(ResnetOp, inst.out_channels)
        /\ ~ResampleAsked => inst.kind = "None" /\ ResamplerSlot = NoneSlot

C12_Witness ==
    /\ AttnFactoryBuilt /\ call.op = "get_up_block" /\ call.L = 1
    /\ call.up /\ call.type = "None"
    /\ inst.kind = "conv" /\ inst.up = ModuleSlot("Upsample1D", inst.out_channels)

CompositeDown == {"DownResnetBlock1D", "DownBlock1D", "AttnDownBlock1D"}

\* C13 as stated: every composite Down block holds one leading resnet plus
\* num_layers more, hence at least one.
C13_LeadingResnetAsClaimed ==
    inst.cls \in CompositeDown =>
        Len(inst.resnets) = inst.num_layers + 1 /\ Len(inst.resnets) >= 1

\* C13 amended: DownResnetBlock1D holds num_layers + 1 resnets, hence at least
\* one; DownBlock1D and AttnDownBlock1D hold exactly num_layers, none at 0.
C13_LeadingResnet ==
    /\ inst.cls = "DownResnetBlock1D" =>
           Len(inst.resnets) = inst.num_layers + 1 /\ Len(inst.resnets) >= 1
    /\ inst.cls \in {"DownBlock1D", "AttnDownBlock1D"} =>
           Len(inst.resnets) = inst.num_layers

C13_Witness ==
    /\ call.op = "init" /\ call.name = "DownBlock1D" /\ call.L = 0
    /\ inst.cls = "DownBlock1D" /\ inst.resnets = <<>>

\* C14: no block is constructed holding a self-attention sub-block whose head
\* count is zero or does not divide its channel count (such a construction
\* fails instead).
C14_HeadsDivideAtConstruction ==
    \A k \in DOMAIN inst.attentions :
        inst.attentions[k].none \/ HeadsSplit(inst.attentions[k])

\* C15: the forward of a block built by get_down_block("DownBlock1DNoSkip")
\* concatenates the embedding onto the hidden state before its resnet stack and
\* returns (h, (h,)): one skip state, which is the returned hidden state, with
\* out_channels channels.
C15_NoSkipSingleState ==
    (IsForward("DownBlock1DNoSkip") /\ Returned) =>
        /\ out.trace = <<"cat_temb", "resnet", "resnet", "resnet">>
        /\ out.states = <<out.h>>
        /\ out.h.ch = prev.out_channels
        /\ call.h.ch + call.env.temb.t.ch = prev.in_channels

C15_Witness ==
    /\ IsForward("DownBlock1DNoSkip") /\ Returned
    /\ prev.in_channels = 8 /\ prev.out_channels = 4
    /\ call.h.ch = 4 /\ call.env.temb.t.ch = 4
    /\ out.states = <<Tensor(4, call.h.len, 0)>>

\* the sub-blocks UNetMidBlock1D.forward is to apply: resnet 0, then per pair
\* the attention (when there is one) and the resnet
MidBlockOrder(L, attention) ==
    IF attention
    THEN [k \in 1..(2 * L + 1) |-> IF k % 2 = 0 THEN "attn" ELSE "resnet"]
    ELSE [k \in 1..(L + 1) |-> "resnet"]

\* C16: UNetMidBlock1D with num_layers = L has L + 1 resnets and L attention
\* slots, filled exactly when add_attention is set; forward applies resnet 0 and
\* then per pair the attention (if any) and the resnet, and keeps the shape.
C16_MidBlockPairs ==
    /\ inst.cls = "UNetMidBlock1D" =>
           /\ Len(inst.resnets) = inst.num_layers + 1
           /\ Len(inst.attentions) = inst.num_layers
           /\ \A k \in DOMAIN inst.attentions :
                  inst.attentions[k].none <=> ~inst.add_attention
    /\ (IsForward("UNetMidBlock1D") /\ Returned) =>
           /\ out.trace = MidBlockOrder(prev.num_layers, prev.add_attention)
           /\ out.h.ch = call.h.ch /\ out.h.len = call.h.len

C16_Witness ==
    /\ IsForward("UNetMidBlock1D") /\ Returned
    /\ prev.num_layers = 2 /\ prev.add_attention
    /\ out.trace = <<"resnet", "attn", "resnet", "attn", "resnet">>

C16_WitnessNoAttention ==
    /\ IsForward("UNetMidBlock1D") /\ Returned
    /\ prev.num_layers = 2 /\ ~prev.add_attention
    /\ out.trace = <<"resnet", "resnet", "resnet">>

\* C17: ValueFunctionMidBlock1D takes in_channels to in_channels / 2 and then to
\* in_channels / 4, each of its two down-samplers is built for the channel
\* count the resnet before it outputs, and forward on an input of in_channels
\* channels returns in_channels / 4 channels at a quarter of the length.
C17_ValueFunctionStages ==
    /\ inst.cls = "ValueFunctionMidBlock1D" =>
           /\ inst.resnets = <<Res(inst.in_channels, inst.in_channels \div 2),
                               Res(inst.in_channels \div 2, inst.in_channels \div 4)>>
           /\ inst.down.ch = inst.resnets[1].cout
           /\ inst.down2.ch = inst.resnets[2].cout
    /\ (IsForward("ValueFunctionMidBlock1D") /\ call.h.ch = prev.in_channels) =>
           /\ Returned
           /\ out.h = Tensor(prev.in_channels \div 4, call.h.len \div 4, 0)


(* ------------------------------- C18 ----------------------------------- *)
\* the classes that carry a gradient_checkpointing flag and whose forward
\* branches on it
CheckpointingBlocks == {"DownBlock1D", "UpBlock1D", "UpBlock1DNoSkip"}

\* the forward of such a block, by class
ScaledForward(self, h, res, scale, training) ==
    IF self.cls = "DownBlock1D" THEN DownBlock1D_forward(self, h, scale, training)
    ELSE IF self.cls = "UpBlock1D" THEN UpBlock1D_forward(self, h, res, scale, training)
    ELSE UpBlock1DNoSkip_forward(self, h, res, scale, training)

\* a bound forward call in training mode was made on a block with the flag set
CheckpointedCall ==
    /\ call.op = "forward" /\ call.name \in CheckpointingBlocks
    /\ out.msg # "forward"
    /\ prev.gradient_checkpointing /\ call.env.training

\* C18: for DownBlock1D, UpBlock1D and UpBlock1DNoSkip, a forward call in
\* training mode with gradient_checkpointing set gives what the same call gives
\* with the flag off: the same exception or the same hidden state, the same
\* sub-blocks in the same order, every resnet run with the same scale, and the
\* same skip states emitted and consumed.
C18_CheckpointingTransparent ==
    CheckpointedCall =>
        LET off == ScaledForward([prev EXCEPT !.gradient_checkpointing = FALSE],
                                 call.h, call.res, call.env.scale, call.env.training).st
        IN  /\ out.err = off.err
            /\ off.err = "none" =>
                   /\ out.h = off.h /\ out.trace = off.trace /\ out.scales = off.scales
                   /\ out.states = off.states /\ out.cats = off.cats

\* the part of it that holds: everything but the scale the resnets run with
C18_CheckpointingSameButScale ==
    CheckpointedCall =>
        LET off == ScaledForward([prev EXCEPT !.gradient_checkpointing = FALSE],
                                 call.h, call.res, call.env.scale, call.env.training).st
        IN  /\ out.err = off.err
            /\ off.err = "none" =>
                   /\ out.h = off.h /\ out.trace = off.trace
                   /\ out.states = off.states /\ out.cats = off.cats
                   /\ Len(out.scales) = Len(off.scales)
                   /\ \A j \in 1..Len(out.scales) : out.scales[j] = DefaultScale


(* ------------------------------- C19 ----------------------------------- *)
\* how many times the step named x was taken
RECURSIVE Times(_, _)
Times(trace, x) ==
    IF trace = <<>> THEN 0
    ELSE (IF Head(trace) = x THEN 1 ELSE 0) + Times(Tail(trace), x)

\* a forward call of UpBlock1D or UpBlock1DNoSkip returned after concatenating
\* at least one skip state
RebalancingCall ==
    /\ call.op = "forward" /\ call.name \in {"UpBlock1D", "UpBlock1DNoSkip"}
    /\ out.msg # "forward" /\ out.err = "none"
    /\ out.cats # <<>>

\* C19: in UpBlock1D and UpBlock1DNoSkip forward the rebalancing step is applied
\* before every concatenation when s1, s2, b1 and b2 are all present on the
\* instance, whatever their values, and before none when any of them is absent.
C19_FreeUWhenPresent ==
    RebalancingCall =>
        Times(out.trace, "freeu") =
            IF is_freeu_enabled_present(prev) THEN Len(out.cats) ELSE 0

\* what the forward does: the step is applied when all four are present and
\* none of them is zero
C19_FreeUWhenTruthy ==
    RebalancingCall =>
        Times(out.trace, "freeu") = IF is_freeu_enabled(prev) THEN Len(out.cats) ELSE 0


(* ------------------------------- C20 ----------------------------------- *)
\* the Down, Up, Mid and Out block classes
BlockClasses ==
    DownTypes \cup UpTypes \cup MidTypes \cup {"OutConv1DBlock", "OutValueFunctionBlock"}

\* a forward call on a block was made with an embedding argument
EmbeddingSupplied ==
    call.op = "forward" /\ call.name \in BlockClasses /\ call.env.temb.given

\* C20: every Down/Up/Mid/Out block's forward has an embedding parameter, so a
\* call is never refused for supplying one; and OutConv1DBlock, which does not
\* use it, returns with a tensor what it returns with None.
C20_EmbeddingAccepted ==
    /\ \A cls \in BlockClasses : "temb" \in ForwardParams(cls)
    /\ EmbeddingSupplied => out.msg # "forward"
    /\ EmbeddingSupplied /\ call.name = "OutConv1DBlock" =>
           LET none == OutConv1DBlock_forward(prev, call.h, NoTensor).st
           IN  /\ out.err = none.err /\ out.trace = none.trace
               /\ none.err = "none" => out.h = none.h

\* OutConv1DBlock was called with a tensor as the embedding and returned
C20_Witness ==
    /\ EmbeddingSupplied /\ call.name = "OutConv1DBlock"
    /\ call.env.temb.t # NoTensor
    /\ out.err = "none" /\ out.h.ch = prev.out_channels


C21_WitnessMapping ==
    /\ call.op = "forward" /\ call.name = "AttnDownBlock1D"
    /\ call.kwargs.given /\ out.err = "none"

\* an AttnDownBlock1D with at least one layer exists
AttnDownWithLayers == inst.cls = "AttnDownBlock1D" /\ inst.num_layers > 0


(* ------------------------------- C22 ----------------------------------- *)
\* how many skip tensors an Up block's forward takes from the tuple
Pops(self) == IF self.cls = "UpResnetBlock1D" THEN 1 ELSE self.num_layers

\* an Up block with at least one layer was called with a hidden state of its
\* in_channels and a tuple of skip tensors as the mirrored Down block emits
\* them: each with the channel count the Up block was built for, and at least
\* as many as it takes
MirroredUpCall ==
    /\ call.op = "forward" /\ call.name \in UpTypes /\ out.msg # "forward"
    /\ call.given /\ prev.num_layers >= 1
    /\ call.h.ch = prev.in_channels
    /\ Len(call.res) >= Pops(prev)
    /\ \A j \in 1..Len(call.res) : call.res[j].ch = prev.skip_channels

\* C22: in such a call every concatenation has the channel count its resnet
\* was constructed with, so no resnet refuses its input, and an output that is
\* returned has out_channels channels.
C22_UpChannels ==
    MirroredUpCall =>
        /\ out.err # "RuntimeError"
        /\ out.err = "none" => out.h.ch = prev.out_channels

\* what holds: the same for UpResnetBlock1D and UpBlock1D, and for
\* AttnUpBlock1D and UpBlock1DNoSkip with exactly one layer or with
\* out_channels equal to skip_channels
C22_UpChannelsWhereSized ==
    (/\ MirroredUpCall
     /\ \/ prev.cls \in {"UpResnetBlock1D", "UpBlock1D"}
        \/ prev.num_layers = 1
        \/ prev.out_channels = prev.skip_channels)
        => /\ out.err # "RuntimeError"
           /\ out.err = "none" => out.h.ch = prev.out_channels


(* ------------------------------- C23 ----------------------------------- *)
AttnBlocks == {"AttnDownBlock1D", "AttnUpBlock1D"}

\* the steps of a forward that ran to its end on L (resnet, attention) pairs
RECURSIVE ResnetThenAttn(_)
ResnetThenAttn(L) == IF L = 0 THEN <<>> ELSE <<"resnet", "attn">> \o ResnetThenAttn(L - 1)

\* the steps of a forward's loop: what was recorded, the skip-state and
\* resampling steps left out
RECURSIVE LoopSteps(_)
LoopSteps(trace) ==
    IF trace = <<>> THEN <<>>
    ELSE IF Head(trace) \in {"resnet", "attn"} THEN <<Head(trace)>> \o LoopSteps(Tail(trace))
    ELSE LoopSteps(Tail(trace))

\* C23: AttnDownBlock1D and AttnUpBlock1D with num_layers >= 1 are constructed,
\* directly or through a factory, without an argument error from building
\* SelfAttention1d, and their forward ends without an argument error, having
\* applied resnet then attention in each iteration when it returns.
C23_AttnArgumentsAccepted ==
    /\ (/\ call.op \in {"init", "get_down_block", "get_up_block"}
        /\ call.name \in AttnBlocks /\ call.L >= 1)
       => ~(out.err = "TypeError" /\ out.msg = "SelfAttention1d")
    /\ (/\ call.op = "forward" /\ call.name \in AttnBlocks
        /\ prev.num_layers >= 1 /\ out.msg # "forward")
       => /\ out.err # "TypeError"
          /\ out.err = "none" => LoopSteps(out.trace) = ResnetThenAttn(prev.num_layers)

\* the construction half alone, for AttnUpBlock1D: that one holds
C23_AttnUpConstructed ==
    (/\ call.op \in {"init", "get_up_block"}
     /\ call.name = "AttnUpBlock1D" /\ call.L >= 1)
    => out.err = "none" /\ inst.cls = "AttnUpBlock1D" /\ Len(inst.attentions) = call.L


(* ------------------------------- C24 ----------------------------------- *)
\* a bound forward call on an UpBlock1DNoSkip
NoSkipUpCall ==
    call.op = "forward" /\ call.name = "UpBlock1DNoSkip" /\ out.msg # "forward"

\* its inputs fit the instance: the hidden state has in_channels, the tuple
\* holds num_layers tensors or more, and every concatenation has the channel
\* count its resnet was built for
NoSkipInputsFit ==
    /\ call.h.ch = prev.in_channels
    /\ Len(call.res) >= prev.num_layers
    /\ \A j \in 1..Len(call.res) : call.res[j].ch = prev.skip_channels
    /\ prev.num_layers <= 1 \/ prev.out_channels = prev.skip_channels

\* C24: UpBlock1DNoSkip.forward reads no attribute the constructor left
\* undefined, and on inputs that fit it completes its num_layers iterations and
\* returns the hidden state.
C24_NoSkipForwardCompletes ==
    NoSkipUpCall =>
        /\ out.err # "AttributeError"
        /\ NoSkipInputsFit =>
               /\ out.err = "none" /\ Len(out.cats) = prev.num_layers
               /\ out.h.ch = IF prev.num_layers = 0 THEN prev.in_channels ELSE prev.out_channels

\* what the forward does: on inputs that fit, the loop completes and the read of
\* self.upsamplers raises
C24_NoSkipForwardRaises ==
    (NoSkipUpCall /\ NoSkipInputsFit) =>
        /\ out.err = "AttributeError"
        /\ Len(out.cats) = prev.num_layers

====
